---- MODULE Spec2Model ----
(***************************************************************************)
(* A model of the UVG agent (Nuclia search + Claude): the /ask pipeline of *)
(* app/agent.py (ask_agent, extract_sources_info) and the context builder  *)
(* of app/nuclia.py (build_context), with the external calls (search, LLM, *)
(* resource lookup, download-URL issuance) as nondeterministic outcomes.   *)
(*                                                                         *)
(* Encoding of Python values:                                              *)
(*   str            a sequence of tokens (substrings); "" is << >>         *)
(*   resource id    one token; "" when missing                             *)
(*   dict           a function whose DOMAIN is the set of keys present     *)
(*   None (dict)    NoneDict;  None (str)  NoneStr                         *)
(*   optional num   << >> for None, <<n>> for the number n                 *)
(*   float score    an integer, in units of 1/10000                        *)
(***************************************************************************)
EXTENDS Integers, Sequences, FiniteSets, TLC

\* ------------------------------------------------------------------ bounds

\* The longest paragraphs.results list a payload carries.
MaxHits == 3

\* max_chunks ranges over 1..MaxChunks (schemas.py: ge=1).
MaxChunks == 3

\* The provider calls the workers make between them.
MaxCalls == 3

\* The longest downloaded file holds MaxBlocks full chunks and a byte.
MaxBlocks == 2

\* ---------------------------------------------------------- Python values

NoneDict == [none |-> TRUE]

NoneStr == <<"<None>">>

EmptyDict == << >>

IsNone(d) == "none" \in DOMAIN d

\* dict.get(k, default)
Get(d, k, default) == IF k \in DOMAIN d THEN d[k] ELSE default

\* bool(d) of a dict or None
TruthyDict(d) == ~IsNone(d) /\ DOMAIN d # {}

\* bool(s) of a str or None
TruthyStr(s) == s # NoneStr /\ s # << >>

\* (d or {})
OrEmptyDict(d) == IF TruthyDict(d) THEN d ELSE EmptyDict

\* (s or "")
OrEmptyStr(s) == IF TruthyStr(s) THEN s ELSE << >>

\* sub in s, on tokens: sub is a contiguous run of s
Contains(sub, s) ==
    \E i \in 0..(Len(s) - Len(sub)) : SubSeq(s, i + 1, i + Len(sub)) = sub

LowerTok(t) ==
    CASE t = "PDF" -> "pdf"
      [] t = "Excel" -> "excel"
      [] OTHER -> t

\* str.lower()
Lower(s) == [i \in DOMAIN s |-> LowerTok(s[i])]

Whitespace == {" ", "\n"}

RECURSIVE LStrip(_)
LStrip(s) ==
    IF s = << >> THEN s
    ELSE IF Head(s) \in Whitespace THEN LStrip(Tail(s)) ELSE s

RECURSIVE RStrip(_)
RStrip(s) ==
    IF s = << >> THEN s
    ELSE IF s[Len(s)] \in Whitespace THEN RStrip(SubSeq(s, 1, Len(s) - 1)) ELSE s

\* str.strip()
Strip(s) == RStrip(LStrip(s))

\* para[:n] for n >= 0
Take(s, n) == SubSeq(s, 1, IF n < Len(s) THEN n ELSE Len(s))

\* round(score, 3) on a score in units of 1/10000
Round3(score) == ((score + 5) \div 10) * 10

\* ------------------------------------------------------------ configuration

\* app/config.py (imported by agent.py and nuclia.py)
NUCLIA_API_BASE == <<"https://", "nuclia", ".cloud/api/v1">>

KB == <<"kb-uvg">>

\* The request headers set at startup: the service credential.
ConfigHeaders == [k \in {"X-NUCLIA-SERVICEACCOUNT"} |-> <<"Bearer ", "token">>]

\* The threads serving requests (the routes are run in a thread pool).
Workers == {"w1", "w2"}

\* A worker outside any call.
Idle == [pc |-> "idle"]

\* ------------------------------------------------ the knowledge base's data

R1 == "r1"

R2 == "r2"

R3 == "r3"

R4 == "r4"

R5 == "r5"

R6 == "r6"

IconPdf == <<"application/", "pdf">>

IconLink == <<"application/", "stf-link">>

\* The "resources" map a search payload embeds: R1 and R3 are PDF files, R2,
\* R5 and R6 are links (R5 to a page of another site about the provider, R6
\* with a bare path for origin), R4 is not listed.
Resources ==
    [r \in {R1, R2, R3, R5, R6} |->
        CASE r = R1 -> [title |-> <<"Reglamento">>, icon |-> IconPdf]
          [] r = R2 -> [title |-> <<"Portal">>, icon |-> IconLink,
                        origin |-> [url |-> <<"https://", "uvg.edu.gt">>]]
          [] r = R3 -> [icon |-> IconPdf]
          [] r = R5 -> [title |-> <<"Guia">>, icon |-> IconLink,
                        origin |-> [url |-> <<"https://", "example.org", "/docs/",
                                              "nuclia", "-guide">>]]
          [] r = R6 -> [title |-> <<"Archivo">>, icon |-> IconLink,
                        origin |-> [path |-> <<"docs/", "reglamento">>]]]

FileField(content_type, size) ==
    [value |-> [file |-> [content_type |-> content_type, size |-> size]]]

NamedFileField(content_type, size, filename) ==
    [value |-> [file |-> [content_type |-> content_type, size |-> size,
                          filename |-> filename]]]

\* A dict of file fields, as its items() in order: <<file_id, file_info>>.
FilesPdf ==
    << <<"f0", FileField(<< >>, 0)>>,
       <<"f1", NamedFileField(<<"application/", "PDF">>, 1024,
                              <<"reglamento", ".pdf">>)>>,
       <<"f2", FileField(<<"application/", "vnd.ms-", "Excel">>, 77)>> >>

FilesOctet == << <<"f0", FileField(<<"application/", "octet-stream">>, 10)>> >>

FilesUntyped == << <<"f0", FileField(<< >>, 0)>> >>

\* What a successful resource lookup may return for a resource id.
KBResource(rid) ==
    CASE rid = R1 -> {[data |-> [files |-> FilesPdf]]}
      [] rid = R3 -> {[data |-> [files |-> FilesOctet]],
                      [data |-> [files |-> FilesUntyped]],
                      [id |-> rid]}
      [] OTHER -> {[id |-> rid]}

\* What a successful download-URL issuance may return.
TemporalUrls(rid, file_id) ==
    { NUCLIA_API_BASE \o <<"/kb/">> \o KB \o <<"/resource/", rid, "/file/", file_id, "/download", "?token=", "t1">>,
      << >> }

\* Paragraph hits.
Hit(score, text, rid) ==
    [score |-> score, text |-> text, rid |-> rid, field |-> <<"/f/", "file">>]

HitPdfPage ==
    [score |-> 3217, text |-> <<" ", "a", "\n">>, rid |-> R1,
     field |-> <<"/f/", "file">>, position |-> [page_number |-> <<3>>]]

HitPdfLow == Hit(1500, <<"b">>, R1)

HitLinkNoScore == [text |-> <<"c">>, rid |-> R2, position |-> EmptyDict]

HitBlank == Hit(3217, <<" ", " ">>, R3)

HitPdfBare == Hit(1500, <<"d">>, R3)

HitUnlisted == [score |-> 2000, text |-> <<"e">>, rid |-> R4, field |-> <<"/t/", "text">>]

HitNoRid == [score |-> 3217, text |-> NoneStr]

Hits == {HitPdfPage, HitPdfBare, HitLinkNoScore, HitBlank, HitUnlisted}

Thresholds == {0, 2000}

RECURSIVE SeqsUpTo(_, _)
SeqsUpTo(S, n) ==
    IF n = 0 THEN {<< >>}
    ELSE LET shorter == SeqsUpTo(S, n - 1)
         IN  shorter \cup {Append(s, x) : s \in {t \in shorter : Len(t) = n - 1}, x \in S}

\* The payloads the search endpoint may answer with.
SearchPayloads ==
    {[paragraphs |-> [results |-> hs], resources |-> Resources] : hs \in SeqsUpTo(Hits, MaxHits)}
    \cup {[resources |-> Resources],
          [paragraphs |-> NoneDict, resources |-> Resources],
          [paragraphs |-> EmptyDict],
          [paragraphs |-> [results |-> <<HitNoRid>>], resources |-> NoneDict],
          [paragraphs |-> [results |-> <<HitNoRid, HitUnlisted>>], resources |-> NoneDict]}

\* The payload of the end-to-end example: 8 hits, of which the two at a and b
\* score below 0.2.
EightHits(a, b) ==
    LET passing == <<HitPdfPage, HitUnlisted, Hit(3217, <<"l">>, R2), HitUnlisted,
                     Hit(3217, <<"d">>, R3), HitUnlisted>>
    IN  [i \in 1..8 |->
            IF i \in {a, b} THEN HitPdfLow
            ELSE passing[i - Cardinality({j \in {a, b} : j < i})]]

EightHitPayloads ==
    {[paragraphs |-> [results |-> EightHits(p[1], p[2])], resources |-> Resources] :
        p \in {q \in (1..8) \X (1..8) : q[1] < q[2]}}

SearchAnswers(base) == IF base = "eight_hits" THEN EightHitPayloads ELSE SearchPayloads

\* ------------------------------------------------ the failures of requests

\* The text of an upstream error response, n characters long.
Body(n) == [i \in 1..n |-> IF i = n THEN "z" ELSE IF i % 2 = 0 THEN "y" ELSE "x"]

BodyLengths == {2, 600, 601}

\* An exception without a response: its class and its str().
Raised(type, message) == [type |-> type, response |-> NoneDict, message |-> message]

\* What requests.get/post followed by raise_for_status may raise on the
\* endpoint at path: an HTTPError carrying the 4xx/5xx response, or, when no
\* response arrives, a ConnectionError or a timeout (neither is an HTTPError).
RequestFailures(path) ==
    LET url == NUCLIA_API_BASE \o <<"/kb/">> \o KB \o path
    IN  {[type |-> <<"HTTPError">>,
          response |-> [status_code |-> status, text |-> Body(n)],
          message |-> <<ToString(status), " Error for url: ">> \o url] :
            status \in {404, 503}, n \in BodyLengths}
        \cup {Raised(<<"ConnectionError">>, <<"Failed to establish a new connection: ">> \o url),
              Raised(<<"ReadTimeout">>, <<"Read timed out. (read timeout=30)">>)}

\* ------------------------------------------------- nuclia.py: build_context

SEPARATOR == <<"\n\n---\n\n">>

RECURSIVE JoinWith(_, _)
JoinWith(sep, parts) ==
    IF parts = << >> THEN << >>
    ELSE IF Len(parts) = 1 THEN parts[1]
    ELSE parts[1] \o sep \o JoinWith(sep, Tail(parts))

\* ContextSkips without the score check.
ContextSkipsTextOnly(hit, score_threshold) ==
    Strip(OrEmptyStr(Get(hit, "text", NoneStr))) = << >>

\* The filter of build_context's loop: the hit is skipped.
ContextSkips(hit, score_threshold) ==
    \/ Get(hit, "score", 10000) < score_threshold
    \/ Strip(OrEmptyStr(Get(hit, "text", NoneStr))) = << >>

\* One block: the text, under a metadata header when there is one.
ContextBlock(hit, resources, include_metadata) ==
    LET text == Strip(OrEmptyStr(Get(hit, "text", NoneStr)))
        resource_id == Get(hit, "rid", "")
        field == Get(hit, "field", << >>)
        resource_info == Get(resources, resource_id, EmptyDict)
        title == Get(resource_info, "title", << >>)
        position == Get(hit, "position", EmptyDict)
        page_num == Get(position, "page_number", << >>)
        title_part == IF title # << >> THEN << <<"[doc] ">> \o title >>
                      ELSE IF field # << >> THEN << <<"Fuente: ">> \o field >>
                      ELSE << >>
        page_part == IF page_num # << >> /\ page_num[1] # 0
                     THEN << <<"(pagina ", ToString(page_num[1]), ")">> >>
                     ELSE << >>
        metadata_parts == title_part \o page_part
    IN  IF include_metadata /\ metadata_parts # << >>
        THEN <<"[">> \o JoinWith(<<" ">>, metadata_parts) \o <<"]\n">> \o text
        ELSE text

\* The loop over para[:max_chunks]; each block is kept with the index of
\* the hit it comes from (origin, 1-based).
RECURSIVE ContextBlocks(_, _, _, _, _)
ContextBlocks(window, i, resources, include_metadata, score_threshold) ==
    IF i > Len(window) THEN << >>
    ELSE LET rest == ContextBlocks(window, i + 1, resources, include_metadata, score_threshold)
         IN  IF ContextSkips(window[i], score_threshold) THEN rest
             ELSE <<[origin |-> i,
                     str |-> ContextBlock(window[i], resources, include_metadata)]>> \o rest

\* ContextWindow without the [:max_chunks] cut.
ContextWindowUncut(search_json, max_chunks) ==
    Get(OrEmptyDict(Get(search_json, "paragraphs", NoneDict)), "results", << >>)

ContextWindow(search_json, max_chunks) ==
    Take(Get(OrEmptyDict(Get(search_json, "paragraphs", NoneDict)), "results", << >>),
         max_chunks)

build_context_blocks(search_json, max_chunks, include_metadata, score_threshold) ==
    ContextBlocks(ContextWindow(search_json, max_chunks), 1,
                  OrEmptyDict(Get(search_json, "resources", NoneDict)),
                  include_metadata, score_threshold)

build_context(search_json, max_chunks, include_metadata, score_threshold) ==
    LET blocks == build_context_blocks(search_json, max_chunks, include_metadata,
                                       score_threshold)
    IN  JoinWith(SEPARATOR, [i \in DOMAIN blocks |-> blocks[i].str])

\* -------------------------------------------- nuclia.py: the resource calls

\* get_nuclia_resource: the SDK's answer, or when the SDK raises the HTTP
\* fallback's; it raises when the fallback fails too. Outcomes of one call.
get_nuclia_resource(resource_id) ==
    {[ok |-> TRUE, details |-> d] : d \in KBResource(resource_id)}
    \cup {[ok |-> FALSE, details |-> EmptyDict]}

\* The URL built when the SDK's temporal_download_url raises.
StandardDownloadUrl(resource_id, file_id) ==
    NUCLIA_API_BASE \o <<"/kb/">> \o KB \o <<"/resource/", resource_id, "/file/", file_id, "/download">>

\* The SDK's temporal_download_url: a URL, or an exception.
SdkUrlOutcomes(resource_id, file_id) ==
    {[ok |-> TRUE, url |-> u] : u \in TemporalUrls(resource_id, file_id)}
    \cup {[ok |-> FALSE, url |-> << >>]}

\* get_temporal_download_url returning "" on an SDK failure.
get_temporal_download_urlEmptyOnFailure(resource_id, file_id, sdk) ==
    IF sdk.ok THEN sdk.url ELSE << >>

\* get_temporal_download_url never raises: on an SDK failure it returns the
\* standard (authenticated) download URL.
get_temporal_download_url(resource_id, file_id, sdk) ==
    IF sdk.ok THEN sdk.url ELSE StandardDownloadUrl(resource_id, file_id)

\* ------------------------------------------ agent.py: extract_sources_info

\* RetrievalResults probing the top level first.
RetrievalResultsTopFirst(search_json) ==
    LET raw_response == Get(search_json, "raw_response", EmptyDict)
        top == Get(OrEmptyDict(Get(search_json, "paragraphs", NoneDict)), "results", << >>)
        format1 == IF TruthyDict(raw_response)
                   THEN Get(raw_response, "retrieval_results", EmptyDict)
                   ELSE NoneDict
        retrieval == Get(raw_response, "retrieval", EmptyDict)
        format2 == IF ~TruthyDict(format1) /\ TruthyDict(raw_response)
                   THEN (IF IsNone(retrieval) THEN EmptyDict
                         ELSE Get(retrieval, "results", EmptyDict))
                   ELSE format1
    IN  IF top # << >> \/ ~TruthyDict(format2) THEN search_json ELSE format2

\* Lines 85-99: the container the paragraphs and resources are read from.
RetrievalResults(search_json) ==
    LET raw_response == Get(search_json, "raw_response", EmptyDict)
        format1 == IF TruthyDict(raw_response)
                   THEN Get(raw_response, "retrieval_results", EmptyDict)
                   ELSE NoneDict
        retrieval == Get(raw_response, "retrieval", EmptyDict)
        format2 == IF ~TruthyDict(format1) /\ TruthyDict(raw_response)
                   THEN (IF IsNone(retrieval) THEN EmptyDict
                         ELSE Get(retrieval, "results", EmptyDict))
                   ELSE format1
    IN  IF ~TruthyDict(format2) THEN search_json ELSE format2

SourcesResources(search_json) == Get(RetrievalResults(search_json), "resources", EmptyDict)

\* SourcesWindow cut one hit later: para[:max_chunks + 1].
SourcesWindowOneMore(search_json, max_chunks) ==
    Take(Get(OrEmptyDict(Get(RetrievalResults(search_json), "paragraphs", NoneDict)),
             "results", << >>),
         max_chunks + 1)

\* para[:max_chunks]
SourcesWindow(search_json, max_chunks) ==
    Take(Get(OrEmptyDict(Get(RetrievalResults(search_json), "paragraphs", NoneDict)),
             "results", << >>),
         max_chunks)

\* SourceSkips never skipping.
SourceSkipsNothing(hit, score_threshold) == FALSE

\* The filter of the extraction loop: the hit is skipped.
SourceSkips(hit, score_threshold) ==
    \/ Get(hit, "score", 0) < score_threshold
    \/ Strip(OrEmptyStr(Get(hit, "text", NoneStr))) = << >>

HitRid(hit) == Get(hit, "rid", "")

HitResourceInfo(hit, resources) == Get(resources, HitRid(hit), EmptyDict)

HitTitle(hit, resources) ==
    Get(HitResourceInfo(hit, resources), "title", <<"Documento sin titulo">>)

HitIcon(hit, resources) == Get(HitResourceInfo(hit, resources), "icon", << >>)

\* IsFile without the exclusion of the link marker.
IsFileAnyApplication(icon) == icon # << >> /\ Contains(<<"application/">>, icon)

IsFile(icon) == icon # << >> /\ Contains(<<"application/">>, icon) /\ icon # IconLink

IsLink(icon) == icon = IconLink

\* The first file field with a content type, as an index into files; 0 when
\* there is none.
RECURSIVE FirstTypedFile(_, _)
FirstTypedFile(files, i) ==
    IF i > Len(files) THEN 0
    ELSE LET file_data == Get(Get(files[i][2], "value", EmptyDict), "file", EmptyDict)
         IN  IF Get(file_data, "content_type", << >>) # << >> THEN i
             ELSE FirstTypedFile(files, i + 1)

ResourceFiles(resource_details) ==
    Get(Get(resource_details, "data", EmptyDict), "files", << >>)

\* FileDownloadInfo with the flags computed without lower().
FileDownloadInfoCaseSensitive(file_id, file_info, title, temporal_url) ==
    LET file_data == Get(Get(file_info, "value", EmptyDict), "file", EmptyDict)
        content_type == Get(file_data, "content_type", << >>)
    IN  [download_url |-> temporal_url,
         content_type |-> content_type,
         size |-> Get(file_data, "size", 0),
         filename |-> Get(file_data, "filename", title),
         file_id |-> file_id,
         is_pdf |-> Contains(<<"pdf">>, content_type),
         is_excel |-> Contains(<<"sheet">>, content_type)
                      \/ Contains(<<"excel">>, content_type),
         ttl |-> 3600]

\* Lines 165-174.
FileDownloadInfo(file_id, file_info, title, temporal_url) ==
    LET file_data == Get(Get(file_info, "value", EmptyDict), "file", EmptyDict)
        content_type == Get(file_data, "content_type", << >>)
    IN  [download_url |-> temporal_url,
         content_type |-> content_type,
         size |-> Get(file_data, "size", 0),
         filename |-> Get(file_data, "filename", title),
         file_id |-> file_id,
         is_pdf |-> Contains(<<"pdf">>, Lower(content_type)),
         is_excel |-> Contains(<<"sheet">>, Lower(content_type))
                      \/ Contains(<<"excel">>, Lower(content_type)),
         ttl |-> 3600]

\* Lines 187-195: a link's display URL.
LinkUrl(resource_info) ==
    LET origin == Get(resource_info, "origin", EmptyDict)
        from_origin == IF IsNone(origin) THEN << >>
                       ELSE IF Get(origin, "url", << >>) # << >> THEN origin.url
                       ELSE Get(origin, "path", << >>)
        metadata == Get(resource_info, "metadata", EmptyDict)
        from_metadata == IF IsNone(metadata) THEN << >>
                         ELSE IF Get(metadata, "uri", << >>) # << >> THEN metadata.uri
                         ELSE Get(metadata, "url", << >>)
    IN  IF from_origin # << >> THEN from_origin ELSE from_metadata

\* Lines 198-200.
FallbackUrl(url, resource_id) ==
    IF url = << >> /\ resource_id # ""
    THEN NUCLIA_API_BASE \o <<"/kb/">> \o KB \o <<"/resource/", resource_id>>
    ELSE url

\* Lines 208-218.
UrlType(url) ==
    IF url = << >> THEN "none"
    ELSE IF Contains(<<"http://">>, url) \/ Contains(<<"https://">>, url)
         THEN (IF Contains(<<"nuclia">>, url) \/ Contains(<<"rag.progress.cloud">>, url)
               THEN "nuclia" ELSE "external")
         ELSE "resource"

\* WithDownload with the flag set whatever the descriptor.
WithDownloadAlwaysFlagged(source, file_download_info) ==
    IF TruthyDict(file_download_info)
    THEN [k \in DOMAIN source \cup {"file", "is_downloadable"} |->
            CASE k = "file" -> file_download_info
              [] k = "is_downloadable" -> TRUE
              [] OTHER -> source[k]]
    ELSE [k \in DOMAIN source \cup {"is_downloadable"} |->
            IF k = "is_downloadable" THEN TRUE ELSE source[k]]

\* Lines 236-240: the file descriptor and the flag.
WithDownload(source, file_download_info) ==
    IF TruthyDict(file_download_info)
    THEN [k \in DOMAIN source \cup {"file", "is_downloadable"} |->
            CASE k = "file" -> file_download_info
              [] k = "is_downloadable" -> TRUE
              [] OTHER -> source[k]]
    ELSE [k \in DOMAIN source \cup {"is_downloadable"} |->
            IF k = "is_downloadable" THEN FALSE ELSE source[k]]

\* Lines 198-240: the entry of the hit at enumerate index idx (0-based), given
\* the url and file descriptor its branch produced.
SourceEntry(idx, hit, resources, branch_url, file_download_info) ==
    LET score == Get(hit, "score", 0)
        resource_id == HitRid(hit)
        icon == HitIcon(hit, resources)
        url == FallbackUrl(branch_url, resource_id)
    IN  WithDownload(
            [id |-> idx + 1,
             title |-> HitTitle(hit, resources),
             text |-> Strip(OrEmptyStr(Get(hit, "text", NoneStr))),
             score |-> IF score # 0 THEN <<Round3(score)>> ELSE << >>,
             page |-> Get(Get(hit, "position", EmptyDict), "page_number", << >>),
             field |-> Get(hit, "field", << >>),
             resource_id |-> resource_id,
             url |-> url,
             url_type |-> UrlType(url),
             resource_type |-> IF icon # << >> THEN icon ELSE <<"unknown">>,
             has_url |-> url # << >>],
            file_download_info)

\* Lines 137-182: the file branch, given the outcome of the resource lookup
\* (the cached details, or get_nuclia_resource's) and of the SDK's
\* download-URL call. An exception of the lookup is caught: no descriptor.
FileBranch(hit, resources, lookup, sdk) ==
    LET resource_id == HitRid(hit)
        files == ResourceFiles(lookup.details)
        k == FirstTypedFile(files, 1)
    IN  IF ~lookup.ok \/ k = 0
        THEN [url |-> << >>, file |-> NoneDict]
        ELSE LET temporal_url == get_temporal_download_url(resource_id, files[k][1], sdk)
             IN  [url |-> temporal_url,
                  file |-> FileDownloadInfo(files[k][1], files[k][2],
                                            HitTitle(hit, resources), temporal_url)]

\* Whether the file branch reaches the download-URL call.
NeedsUrl(lookup) == lookup.ok /\ FirstTypedFile(ResourceFiles(lookup.details), 1) # 0

\* Payloads extract_sources_info is called on directly (a /nuclia-ask answer
\* carries the retrieval under raw_response).
HitFromRR == Hit(3217, <<"rr">>, R2)

HitFromRet == Hit(3217, <<"ret">>, R4)

HitGuide == Hit(3217, <<"g">>, R5)

HitPath == Hit(3217, <<"p">>, R6)

HitAnon == [score |-> 3217, text |-> <<"n">>]

Container(hs) == [paragraphs |-> [results |-> hs], resources |-> Resources]

RawResponses ==
    {EmptyDict,
     [retrieval_results |-> Container(<<HitFromRR, HitPdfLow>>)],
     [retrieval |-> [results |-> Container(<<HitFromRet>>)]],
     [retrieval_results |-> Container(<<HitFromRR>>),
      retrieval |-> [results |-> Container(<<HitFromRet>>)]],
     [retrieval_results |-> EmptyDict,
      retrieval |-> [results |-> Container(<<HitPdfPage, HitFromRet>>)]],
     [retrieval_results |-> [resources |-> Resources]],
     [retrieval_results |-> Container(<<HitGuide, HitPath, HitAnon>>)],
     [retrieval |-> NoneDict],
     [answer |-> <<"respuesta">>]}

DirectPayloads ==
    {[paragraphs |-> [results |-> hs], resources |-> Resources, raw_response |-> raw] :
        hs \in {<< >>, <<HitUnlisted>>, <<HitLinkNoScore, HitPdfPage>>},
        raw \in RawResponses}
    \cup {[raw_response |-> raw] : raw \in RawResponses}

\* ------------------------------------------------------------------- state

VARIABLES
    pc,               \* where the call stands
    entry,            \* the function called: "ask_agent" or "extract_sources_info"
    kb,               \* the knowledge base the search runs against
    max_chunks,
    min_score,
    search,           \* search_json
    context,          \* build_context's string
    blocks,           \* its blocks, each with the hit it comes from
    calls,            \* the external calls made, in order
    idx,              \* the extraction loop's enumerate index
    sources,
    origins,          \* for each entry of sources, the hit it comes from
    resources_cache,
    error,            \* the exception raised out of the call, << >> when none
    exc,              \* that exception: its response (None when it has none) and str(e)
    request,          \* the path parameters or body flags of the route's request
    raw_response,     \* what nuclia_ask returned
    file_data,        \* what download_resource_file returned
    chunks,           \* the chunks the streamed response has yielded, in order
    response,         \* the route's HTTP response, None until it answers
    HEADERS,          \* config.HEADERS, the dict every request of the process reads
    workers,          \* for each worker thread, the call it is in and its locals
    sent_requests     \* the requests sent to the provider, in order

route_vars == <<request, raw_response, file_data, chunks, response>>

header_vars == <<HEADERS, workers, sent_requests>>

vars == <<pc, entry, kb, max_chunks, min_score, search, context, blocks, calls, idx,
          sources, origins, resources_cache, error, exc, route_vars, header_vars>>

Call(fn, ok, hit, arg) == [fn |-> fn, ok |-> ok, hit |-> hit, arg |-> arg]

Init ==
    /\ pc = "start"
    /\ entry \in {"ask_agent", "extract_sources_info"}
    /\ kb = "small"
    /\ max_chunks \in 1..MaxChunks
    /\ min_score \in Thresholds
    /\ search = NoneDict
    /\ context = << >>
    /\ blocks = << >>
    /\ calls = << >>
    /\ idx = 0
    /\ sources = << >>
    /\ origins = << >>
    /\ resources_cache = EmptyDict
    /\ error = << >>
    /\ exc = NoneDict
    /\ request = EmptyDict
    /\ raw_response = NoneDict
    /\ file_data = NoneDict
    /\ chunks = << >>
    /\ response = NoneDict
    /\ HEADERS = ConfigHeaders
    /\ workers = [w \in Workers |-> Idle]
    /\ sent_requests = << >>

\* ------------------------------------------------------ agent.py: ask_agent

\* app/llm.py, preprocess_query (line 29): the external calls it makes. It is
\* a pure text transformation: none.
PreprocessQueryCalls == << >>

\* Lines 29-41: the search call answers.
NucliaSearch ==
    /\ pc = "start"
    /\ entry = "ask_agent"
    /\ \E payload \in SearchAnswers(kb) : search' = payload
    /\ calls' = Append(calls \o PreprocessQueryCalls, Call("nuclia_search", TRUE, 0, << >>))
    /\ pc' = "build_context"
    /\ UNCHANGED <<entry, kb, max_chunks, min_score, context, blocks, idx, sources,
                   origins, resources_cache, error, exc, route_vars, header_vars>>

\* nuclia.py lines 80-81: the request or raise_for_status raises.
NucliaSearchFails ==
    /\ pc = "start"
    /\ entry = "ask_agent"
    /\ \E e \in RequestFailures(<<"/search">>) : error' = e.type /\ exc' = e
    /\ calls' = Append(calls \o PreprocessQueryCalls, Call("nuclia_search", FALSE, 0, << >>))
    /\ pc' = "raised"
    /\ UNCHANGED <<entry, kb, max_chunks, min_score, search, context, blocks, idx,
                   sources, origins, resources_cache, route_vars, header_vars>>

\* Lines 44-49.
BuildContext ==
    /\ pc = "build_context"
    /\ blocks' = build_context_blocks(search, max_chunks, TRUE, min_score)
    /\ context' = build_context(search, max_chunks, TRUE, min_score)
    /\ pc' = "llm"
    /\ UNCHANGED <<entry, kb, max_chunks, min_score, search, calls, idx, sources,
                   origins, resources_cache, error, exc, route_vars, header_vars>>

\* Lines 52-60: the LLM call returns.
LLMCall ==
    /\ pc = "llm"
    /\ calls' = Append(calls, Call("messages.create", TRUE, 0, context))
    /\ pc' = "extract"
    /\ UNCHANGED <<entry, kb, max_chunks, min_score, search, context, blocks, idx,
                   sources, origins, resources_cache, error, exc, route_vars,
                   header_vars>>

\* LLMCallFails with the exception swallowed: the sources are still extracted.
LLMCallFailsSwallowed ==
    /\ pc = "llm"
    /\ calls' = Append(calls, Call("messages.create", FALSE, 0, context))
    /\ pc' = "extract"
    /\ UNCHANGED <<entry, kb, max_chunks, min_score, search, context, blocks, idx,
                   sources, origins, resources_cache, error, exc, route_vars,
                   header_vars>>

\* Lines 52-58: the LLM call raises.
LLMCallFails ==
    /\ pc = "llm"
    /\ calls' = Append(calls, Call("messages.create", FALSE, 0, context))
    /\ error' = <<"APIError">>
    /\ exc' = Raised(<<"APIError">>, <<"Overloaded">>)
    /\ pc' = "raised"
    /\ UNCHANGED <<entry, kb, max_chunks, min_score, search, context, blocks, idx,
                   sources, origins, resources_cache, route_vars, header_vars>>

\* --------------------------------- agent.py: extract_sources_info, stepwise

\* A direct call of extract_sources_info (test_sources_extraction.py).
CallExtract ==
    /\ pc = "start"
    /\ entry = "extract_sources_info"
    /\ \E payload \in DirectPayloads : search' = payload
    /\ pc' = "extract"
    /\ UNCHANGED <<entry, kb, max_chunks, min_score, context, blocks, calls, idx,
                   sources, origins, resources_cache, error, exc, route_vars,
                   header_vars>>

\* Lines 84-109.
ExtractBegin ==
    /\ pc = "extract"
    /\ idx' = 0
    /\ sources' = << >>
    /\ origins' = << >>
    /\ resources_cache' = EmptyDict
    /\ pc' = "loop"
    /\ UNCHANGED <<entry, kb, max_chunks, min_score, search, context, blocks, calls, error, exc, route_vars,
                   header_vars>>

Window == SourcesWindow(search, max_chunks)

CurrentHit == Window[idx + 1]

InLoop == pc = "loop" /\ idx < Len(Window)

Emit(source) ==
    /\ sources' = Append(sources, source)
    /\ origins' = Append(origins, idx + 1)
    /\ idx' = idx + 1

\* Lines 112-118: the hit is filtered out.
ExtractSkip ==
    /\ InLoop
    /\ SourceSkips(CurrentHit, min_score)
    /\ idx' = idx + 1
    /\ UNCHANGED <<pc, entry, kb, max_chunks, min_score, search, context, blocks, calls,
                   sources, origins, resources_cache, error, exc, route_vars,
                   header_vars>>

\* Line 124: resources is None, resources.get raises AttributeError.
ExtractRaises ==
    /\ InLoop
    /\ ~SourceSkips(CurrentHit, min_score)
    /\ IsNone(SourcesResources(search))
    /\ error' = <<"AttributeError">>
    /\ exc' = Raised(<<"AttributeError">>, <<"'NoneType' object has no attribute 'get'">>)
    /\ pc' = "raised"
    /\ UNCHANGED <<entry, kb, max_chunks, min_score, search, context, blocks, calls, idx,
                   sources, origins, resources_cache, route_vars, header_vars>>

Surviving ==
    /\ InLoop
    /\ ~SourceSkips(CurrentHit, min_score)
    /\ ~IsNone(SourcesResources(search))

\* The SDK outcomes of the download-URL call the file branch makes, if any.
NoSdkCall == [ok |-> FALSE, url |-> << >>]

UrlCall(resource_id, lookup) ==
    IF NeedsUrl(lookup)
    THEN LET files == ResourceFiles(lookup.details)
         IN  SdkUrlOutcomes(resource_id, files[FirstTypedFile(files, 1)][1])
    ELSE {NoSdkCall}

\* Lines 137-182 and 198-243: a file hit. The resource comes from the cache or
\* from get_nuclia_resource, whose answer (not its failure) is cached.
ExtractFile ==
    /\ Surviving
    /\ LET hit == CurrentHit
           resources == SourcesResources(search)
           rid == HitRid(hit)
           cached == rid \in DOMAIN resources_cache
       IN  /\ IsFile(HitIcon(hit, resources)) /\ rid # ""
           /\ \E lookup \in (IF cached
                             THEN {[ok |-> TRUE, details |-> resources_cache[rid]]}
                             ELSE get_nuclia_resource(rid)) :
                \E sdk \in UrlCall(rid, lookup) :
                    LET branch == FileBranch(hit, resources, lookup, sdk)
                    IN  /\ Emit(SourceEntry(idx, hit, resources, branch.url, branch.file))
                        /\ calls' = calls
                             \o (IF cached THEN << >>
                                 ELSE <<Call("get_nuclia_resource", lookup.ok, idx + 1, rid)>>)
                             \o (IF NeedsUrl(lookup)
                                 THEN <<Call("get_temporal_download_url", sdk.ok, idx + 1, rid)>>
                                 ELSE << >>)
                        /\ resources_cache' =
                             IF ~cached /\ lookup.ok
                             THEN [r \in DOMAIN resources_cache \cup {rid} |->
                                     IF r = rid THEN lookup.details ELSE resources_cache[r]]
                             ELSE resources_cache
    /\ UNCHANGED <<pc, entry, kb, max_chunks, min_score, search, context, blocks, error, exc, route_vars,
                   header_vars>>

\* Lines 185-195 and 198-243: a link hit.
ExtractLink ==
    /\ Surviving
    /\ LET hit == CurrentHit
           resources == SourcesResources(search)
       IN  /\ ~(IsFile(HitIcon(hit, resources)) /\ HitRid(hit) # "")
           /\ IsLink(HitIcon(hit, resources))
           /\ Emit(SourceEntry(idx, hit, resources,
                               LinkUrl(HitResourceInfo(hit, resources)), NoneDict))
    /\ UNCHANGED <<pc, entry, kb, max_chunks, min_score, search, context, blocks, calls,
                   resources_cache, error, exc, route_vars, header_vars>>

\* Lines 198-243: a hit that is neither a file with a resource id nor a link.
ExtractOther ==
    /\ Surviving
    /\ LET hit == CurrentHit
           resources == SourcesResources(search)
       IN  /\ ~(IsFile(HitIcon(hit, resources)) /\ HitRid(hit) # "")
           /\ ~IsLink(HitIcon(hit, resources))
           /\ Emit(SourceEntry(idx, hit, resources, << >>, NoneDict))
    /\ UNCHANGED <<pc, entry, kb, max_chunks, min_score, search, context, blocks, calls,
                   resources_cache, error, exc, route_vars, header_vars>>

\* Line 245, and ask_agent's lines 65-69.
ExtractReturn ==
    /\ pc = "loop"
    /\ idx = Len(Window)
    /\ pc' = "returned"
    /\ UNCHANGED <<entry, kb, max_chunks, min_score, search, context, blocks, calls, idx,
                   sources, origins, resources_cache, error, exc, route_vars,
                   header_vars>>

\* ------------------------------------------------- main.py: the /ask route

\* main.py line 50 (and 113): the upstream body is cut to 600 characters.
DetailLimit == 600

\* except requests.HTTPError
IsHTTPError(e) == e.type = <<"HTTPError">>

\* Lines 48-53: the HTTPException the route raises for an exception of
\* ask_agent.
AskFailure(e) ==
    IF IsHTTPError(e)
    THEN LET status == IF ~IsNone(e.response) THEN e.response.status_code ELSE 502
             detail == IF ~IsNone(e.response) THEN Take(e.response.text, DetailLimit)
                       ELSE e.message
         IN  [status_code |-> 502,
              detail |-> <<"Error consultando Nuclia (", ToString(status), "): ">> \o detail]
    ELSE [status_code |-> 502, detail |-> <<"Error llamando a Claude: ">> \o e.message]

\* Lines 36-47: ask_agent returned.
AskReturns ==
    /\ pc = "returned"
    /\ entry = "ask_agent"
    /\ response' = [status_code |-> 200, sources |-> sources]
    /\ pc' = "responded"
    /\ UNCHANGED <<entry, kb, max_chunks, min_score, search, context, blocks, calls, idx,
                   sources, origins, resources_cache, error, exc, request, raw_response,
                   file_data, chunks, header_vars>>

\* Lines 48-53: ask_agent raised.
AskFails ==
    /\ pc = "raised"
    /\ entry = "ask_agent"
    /\ response' = AskFailure(exc)
    /\ pc' = "responded"
    /\ UNCHANGED <<entry, kb, max_chunks, min_score, search, context, blocks, calls, idx,
                   sources, origins, resources_cache, error, exc, request, raw_response,
                   file_data, chunks, header_vars>>

Next ==
    \/ NucliaSearch
    \/ NucliaSearchFails
    \/ BuildContext
    \/ LLMCall
    \/ LLMCallFails
    \/ CallExtract
    \/ ExtractBegin
    \/ ExtractSkip
    \/ ExtractRaises
    \/ ExtractFile
    \/ ExtractLink
    \/ ExtractOther
    \/ ExtractReturn
    \/ AskReturns
    \/ AskFails

Spec == Init /\ [][Next]_vars

\* The end-to-end example: ask_agent with max_chunks=5 and min_score=0.2 against
\* a knowledge base answering with 8 hits of which 2 score below 0.2.
InitEightHits ==
    /\ pc = "start"
    /\ entry = "ask_agent"
    /\ kb = "eight_hits"
    /\ max_chunks = 5
    /\ min_score = 2000
    /\ search = NoneDict
    /\ context = << >>
    /\ blocks = << >>
    /\ calls = << >>
    /\ idx = 0
    /\ sources = << >>
    /\ origins = << >>
    /\ resources_cache = EmptyDict
    /\ error = << >>
    /\ exc = NoneDict
    /\ request = EmptyDict
    /\ raw_response = NoneDict
    /\ file_data = NoneDict
    /\ chunks = << >>
    /\ response = NoneDict
    /\ HEADERS = ConfigHeaders
    /\ workers = [w \in Workers |-> Idle]
    /\ sent_requests = << >>

NextAsk ==
    \/ NucliaSearch
    \/ NucliaSearchFails
    \/ BuildContext
    \/ LLMCall
    \/ LLMCallFails
    \/ ExtractBegin
    \/ ExtractSkip
    \/ ExtractFile
    \/ ExtractLink
    \/ ExtractOther
    \/ ExtractReturn

SpecEightHits == InitEightHits /\ [][NextAsk]_vars

\* ------------------------------- nuclia.py: nuclia_ask and its normalizer

\* item.get("rid") of an item without the key
NoneId == "<None>"

\* A result carrying its own title.
ItemTitled == [score |-> 4500, text |-> <<"t">>, rid |-> R2, field |-> <<"/a/", "title">>,
               title |-> <<"Portal">>]

AskItems == {HitPdfPage, HitLinkNoScore, HitNoRid, ItemTitled}

\* What the provider's ask endpoint answers in synchronous mode.
AskAnswers ==
    {[answer |-> <<"respuesta">>, retrieval |-> [results |-> items]] :
        items \in SeqsUpTo(AskItems, MaxHits)}
    \cup {[answer |-> <<"respuesta">>],
          [answer |-> <<"respuesta">>, retrieval |-> EmptyDict],
          [answer |-> <<"respuesta">>, retrieval |-> NoneDict],
          [retrieval |-> [results |-> <<ItemTitled, HitNoRid>>],
           retrieval_results |-> [resources |-> Resources],
           citations |-> [r2 |-> <<1>>]]}

\* ParsedSource numbering from 0.
ParsedSourceFromZero(index, item) ==
    [id |-> index,
     text |-> Get(item, "text", << >>),
     score |-> IF "score" \in DOMAIN item THEN <<item.score>> ELSE << >>,
     resource_id |-> Get(item, "rid", NoneId),
     field |-> Get(item, "field", NoneStr),
     title |-> Get(item, "title", <<"Documento sin titulo">>)]

\* Lines 390-397: the source of the item at enumerate index (0-based).
ParsedSource(index, item) ==
    [id |-> index + 1,
     text |-> Get(item, "text", << >>),
     score |-> IF "score" \in DOMAIN item THEN <<item.score>> ELSE << >>,
     resource_id |-> Get(item, "rid", NoneId),
     field |-> Get(item, "field", NoneStr),
     title |-> Get(item, "title", <<"Documento sin titulo">>)]

\* Line 387: '"results" in retrieval' raises TypeError when retrieval is None.
ParseRaises(resp) == "retrieval" \in DOMAIN resp /\ IsNone(resp.retrieval)

\* parse_nuclia_ask_response, on a response it does not raise on.
parse_nuclia_ask_response(resp) ==
    LET found == "retrieval" \in DOMAIN resp /\ "results" \in DOMAIN resp.retrieval
        results == IF found THEN resp.retrieval.results ELSE << >>
    IN  [answer |-> Get(resp, "answer", << >>),
         sources |-> [i \in DOMAIN results |-> ParsedSource(i - 1, results[i])],
         metadata |-> Get(resp, "metadata", EmptyDict),
         citations |-> Get(resp, "citations", EmptyDict),
         relations |-> Get(resp, "relations", << >>)]

\* ------------------------------------------ main.py: the /nuclia-ask route

\* NucliaAskFailure answering 502 whatever the upstream status, and the body
\* uncut.
NucliaAskFailureAs502(e) ==
    IF IsHTTPError(e)
    THEN [status_code |-> 502,
          detail |-> <<"Error en endpoint /ask de Nuclia (", ToString(502), "): ">>
                       \o e.response.text]
    ELSE [status_code |-> 500, detail |-> <<"Error procesando solicitud: ">> \o e.message]

\* Lines 111-119: the HTTPException the route raises for an exception of
\* nuclia_ask or of the normalizer.
NucliaAskFailure(e) ==
    IF IsHTTPError(e)
    THEN LET status == IF ~IsNone(e.response) THEN e.response.status_code ELSE 502
             detail == IF ~IsNone(e.response) THEN Take(e.response.text, DetailLimit)
                       ELSE e.message
         IN  [status_code |-> status,
              detail |-> <<"Error en endpoint /ask de Nuclia (", ToString(status), "): ">>
                           \o detail]
    ELSE [status_code |-> 500, detail |-> <<"Error procesando solicitud: ">> \o e.message]

\* nuclia.py lines 348-361: the provider answers; the JSON in synchronous
\* mode, else the line iterator.
NucliaAsk ==
    /\ pc = "start"
    /\ entry = "nuclia_ask_endpoint"
    /\ \E answer \in AskAnswers :
         raw_response' = IF request.synchronous THEN answer
                         ELSE [stream |-> <<"iter_lines">>]
    /\ calls' = Append(calls, Call("nuclia_ask", TRUE, 0, << >>))
    /\ pc' = "parse"
    /\ UNCHANGED <<entry, kb, max_chunks, min_score, search, context, blocks, idx,
                   sources, origins, resources_cache, error, exc, request, file_data,
                   chunks, response, header_vars>>

\* nuclia.py lines 348-354: the request or raise_for_status raises.
NucliaAskFails ==
    /\ pc = "start"
    /\ entry = "nuclia_ask_endpoint"
    /\ \E e \in RequestFailures(<<"/ask">>) : error' = e.type /\ exc' = e
    /\ calls' = Append(calls, Call("nuclia_ask", FALSE, 0, << >>))
    /\ pc' = "raised"
    /\ UNCHANGED <<entry, kb, max_chunks, min_score, search, context, blocks, idx,
                   sources, origins, resources_cache, route_vars, header_vars>>

\* Lines 93-109: the normalizer returns and the route answers.
NucliaAskReturns ==
    /\ pc = "parse"
    /\ ~ParseRaises(raw_response)
    /\ LET parsed == parse_nuclia_ask_response(raw_response)
       IN  response' = [status_code |-> 200, answer |-> parsed.answer,
                        sources |-> parsed.sources, raw_response |-> raw_response]
    /\ pc' = "responded"
    /\ UNCHANGED <<entry, kb, max_chunks, min_score, search, context, blocks, calls, idx,
                   sources, origins, resources_cache, error, exc, request, raw_response,
                   file_data, chunks, header_vars>>

\* Line 93: the normalizer raises.
NucliaAskParseRaises ==
    /\ pc = "parse"
    /\ ParseRaises(raw_response)
    /\ error' = <<"TypeError">>
    /\ exc' = Raised(<<"TypeError">>, <<"argument of type 'NoneType' is not iterable">>)
    /\ pc' = "raised"
    /\ UNCHANGED <<entry, kb, max_chunks, min_score, search, context, blocks, calls, idx,
                   sources, origins, resources_cache, route_vars, header_vars>>

\* Lines 111-119.
NucliaAskAnswersFailure ==
    /\ pc = "raised"
    /\ entry = "nuclia_ask_endpoint"
    /\ response' = NucliaAskFailure(exc)
    /\ pc' = "responded"
    /\ UNCHANGED <<entry, kb, max_chunks, min_score, search, context, blocks, calls, idx,
                   sources, origins, resources_cache, error, exc, request, raw_response,
                   file_data, chunks, header_vars>>

\* -------------------------------------------- main.py: the /download route

\* main.py line 148
chunk_size == 8192

\* The fetched contents are up to MaxBlocks full chunks long, give or take a
\* byte.
ContentLengths ==
    {n \in {k * chunk_size + d : k \in 0..MaxBlocks, d \in {-1, 0, 1}} : n >= 0}

Bytes(n) == [i \in 1..n |-> (i * 31 + n) % 256]

\* nuclia.py lines 202-206: what download_resource_file returns.
FileData(content) ==
    [content |-> content,
     content_type |-> <<"application/", "octet-stream">>,
     size |-> Len(content)]

\* nuclia.py lines 208-210: what download_resource_file raises again: the
\* SDK's refusal, naming the URL it asked, or an OS error, naming the
\* temporary path.
DownloadFailures(resource_id, file_id) ==
    {Raised(<<"NotFoundException">>,
            <<"Resource not found at ">> \o StandardDownloadUrl(resource_id, file_id)),
     Raised(<<"AuthError">>, <<"Auth failed for ">> \o NUCLIA_API_BASE),
     Raised(<<"OSError">>, <<"[Errno 28] No space left on device: ", "/tmp/", "tmp8x2k">>)}

\* Slice taking one byte more: content[i:j + 1].
SliceOneMore(content, i, j) ==
    SubSeq(content, i + 1, IF j + 1 < Len(content) THEN j + 1 ELSE Len(content))

\* content[i:j] for 0 <= i <= j
Slice(content, i, j) ==
    SubSeq(content, i + 1, IF j < Len(content) THEN j ELSE Len(content))

\* Lines 144-161: the StreamingResponse.
StreamingResponse(resource_id, file_id, data) ==
    [status_code |-> 200,
     media_type |-> Get(data, "content_type", <<"application/", "octet-stream">>),
     headers |->
        [ContentDisposition |-> <<"attachment; filename=\"", resource_id, "_", file_id,
                                  ".pdf\"">>,
         ContentLength |-> ToString(Len(data.content)),
         CacheControl |-> <<"private, max-age=3600">>]]

\* Lines 164-167: the HTTPException the route raises for an exception of
\* download_resource_file.
DownloadFailure(e) ==
    [status_code |-> 500, detail |-> <<"Error descargando archivo: ">> \o e.message]

\* Lines 137-161: the file is fetched and the response is started.
DownloadFile ==
    /\ pc = "start"
    /\ entry = "download_file"
    /\ \E n \in ContentLengths :
         /\ file_data' = FileData(Bytes(n))
         /\ response' = StreamingResponse(request.resource_id, request.file_id,
                                          FileData(Bytes(n)))
    /\ calls' = Append(calls, Call("download_resource_file", TRUE, 0, request.resource_id))
    /\ pc' = "streaming"
    /\ UNCHANGED <<entry, kb, max_chunks, min_score, search, context, blocks, idx,
                   sources, origins, resources_cache, error, exc, request, raw_response,
                   chunks, header_vars>>

\* Line 137: download_resource_file raises.
DownloadFileFails ==
    /\ pc = "start"
    /\ entry = "download_file"
    /\ \E e \in DownloadFailures(request.resource_id, request.file_id) :
         error' = e.type /\ exc' = e
    /\ calls' = Append(calls, Call("download_resource_file", FALSE, 0, request.resource_id))
    /\ pc' = "raised"
    /\ UNCHANGED <<entry, kb, max_chunks, min_score, search, context, blocks, idx,
                   sources, origins, resources_cache, route_vars, header_vars>>

\* Lines 147-150: the value of i in iter_bytes' loop, range(0, len, chunk_size),
\* after the chunks yielded so far.
StreamOffset == Len(chunks) * chunk_size

\* Lines 149-150: iter_bytes yields the next chunk.
YieldChunk ==
    /\ pc = "streaming"
    /\ StreamOffset < Len(file_data.content)
    /\ chunks' = Append(chunks, Slice(file_data.content, StreamOffset,
                                      StreamOffset + chunk_size))
    /\ UNCHANGED <<pc, entry, kb, max_chunks, min_score, search, context, blocks, calls,
                   idx, sources, origins, resources_cache, error, exc, request,
                   raw_response, file_data, response, header_vars>>

\* Line 149: the range is exhausted, the stream ends.
StreamEnds ==
    /\ pc = "streaming"
    /\ StreamOffset >= Len(file_data.content)
    /\ pc' = "responded"
    /\ UNCHANGED <<entry, kb, max_chunks, min_score, search, context, blocks, calls, idx,
                   sources, origins, resources_cache, error, exc, route_vars,
                   header_vars>>

\* Lines 163-167.
DownloadAnswersFailure ==
    /\ pc = "raised"
    /\ entry = "download_file"
    /\ response' = DownloadFailure(exc)
    /\ pc' = "responded"
    /\ UNCHANGED <<entry, kb, max_chunks, min_score, search, context, blocks, calls, idx,
                   sources, origins, resources_cache, error, exc, request, raw_response,
                   file_data, chunks, header_vars>>

\* ------------------------------------- the /nuclia-ask and /download routes

InitRoutes ==
    /\ pc = "start"
    /\ \/ /\ entry = "nuclia_ask_endpoint"
          /\ request \in {[synchronous |-> b] : b \in BOOLEAN}
       \/ /\ entry = "download_file"
          /\ request \in {[resource_id |-> r, file_id |-> f] :
                             r \in {R1, R3}, f \in {"f0", "f1"}}
    /\ kb = "small"
    /\ max_chunks = 1
    /\ min_score = 0
    /\ search = NoneDict
    /\ context = << >>
    /\ blocks = << >>
    /\ calls = << >>
    /\ idx = 0
    /\ sources = << >>
    /\ origins = << >>
    /\ resources_cache = EmptyDict
    /\ error = << >>
    /\ exc = NoneDict
    /\ raw_response = NoneDict
    /\ file_data = NoneDict
    /\ chunks = << >>
    /\ response = NoneDict
    /\ HEADERS = ConfigHeaders
    /\ workers = [w \in Workers |-> Idle]
    /\ sent_requests = << >>

NextRoutes ==
    \/ NucliaAsk
    \/ NucliaAskFails
    \/ NucliaAskReturns
    \/ NucliaAskParseRaises
    \/ NucliaAskAnswersFailure
    \/ DownloadFile
    \/ DownloadFileFails
    \/ YieldChunk
    \/ StreamEnds
    \/ DownloadAnswersFailure

SpecRoutes == InitRoutes /\ [][NextRoutes]_vars

\* ------------------------- nuclia.py: the headers of the provider requests

\* d[k] = v on a dict
SetItem(d, k, v) == [x \in DOMAIN d \cup {k} |-> IF x = k THEN v ELSE d[x]]

\* The calls begun so far.
CallsBegun == Len(sent_requests) + Cardinality({w \in Workers : workers[w].pc # "idle"})

RouteIdle ==
    UNCHANGED <<pc, entry, kb, max_chunks, min_score, search, context, blocks, calls, idx,
                sources, origins, resources_cache, error, exc, route_vars>>

\* Lines 279-338: a worker enters nuclia_ask.
CallNucliaAsk(w) ==
    /\ workers[w].pc = "idle"
    /\ CallsBegun < MaxCalls
    /\ \E synchronous \in BOOLEAN :
         workers' = [workers EXCEPT ![w] = [pc |-> "copy", synchronous |-> synchronous]]
    /\ UNCHANGED <<HEADERS, sent_requests>>
    /\ RouteIdle

\* Line 341: headers = dict(HEADERS), a new dict with the entries HEADERS has
\* now.
AskCopyHeaders(w) ==
    /\ workers[w].pc = "copy"
    /\ workers' = [workers EXCEPT ![w] = [pc |-> "flag",
                                          synchronous |-> workers[w].synchronous,
                                          headers |-> HEADERS]]
    /\ UNCHANGED <<HEADERS, sent_requests>>
    /\ RouteIdle

\* AskSetSynchronous on an alias of HEADERS (headers = HEADERS): the item is
\* set in the process-wide dict.
AskSetSynchronousShared(w) ==
    /\ workers[w].pc = "flag"
    /\ workers' = [workers EXCEPT ![w].pc = "post",
                                  ![w].headers = IF workers[w].synchronous
                                                 THEN SetItem(HEADERS, "x-synchronous", <<"true">>)
                                                 ELSE HEADERS]
    /\ HEADERS' = IF workers[w].synchronous
                  THEN SetItem(HEADERS, "x-synchronous", <<"true">>)
                  ELSE HEADERS
    /\ UNCHANGED sent_requests
    /\ RouteIdle

\* Lines 342-343: the item is set in the worker's own copy.
AskSetSynchronous(w) ==
    /\ workers[w].pc = "flag"
    /\ workers' = [workers EXCEPT ![w].pc = "post",
                                  ![w].headers = IF workers[w].synchronous
                                                 THEN SetItem(workers[w].headers,
                                                              "x-synchronous", <<"true">>)
                                                 ELSE workers[w].headers]
    /\ UNCHANGED <<HEADERS, sent_requests>>
    /\ RouteIdle

\* Lines 346-353: the request to the ask endpoint is sent.
AskPost(w) ==
    /\ workers[w].pc = "post"
    /\ sent_requests' = Append(sent_requests,
                               [fn |-> "nuclia_ask",
                                synchronous |-> workers[w].synchronous,
                                headers |-> workers[w].headers])
    /\ workers' = [workers EXCEPT ![w] = Idle]
    /\ UNCHANGED HEADERS
    /\ RouteIdle

\* Lines 47-80: nuclia_search sends its request with headers=HEADERS.
SearchGet(w) ==
    /\ workers[w].pc = "idle"
    /\ CallsBegun < MaxCalls
    /\ sent_requests' = Append(sent_requests,
                               [fn |-> "nuclia_search", synchronous |-> FALSE,
                                headers |-> HEADERS])
    /\ UNCHANGED <<HEADERS, workers>>
    /\ RouteIdle

NextHeaders ==
    \E w \in Workers :
        \/ CallNucliaAsk(w)
        \/ AskCopyHeaders(w)
        \/ AskSetSynchronous(w)
        \/ AskPost(w)
        \/ SearchGet(w)

\* The process after startup, no route being followed: only the workers'
\* provider calls, interleaved.
InitHeaders ==
    /\ InitRoutes
    /\ entry = "nuclia_ask_endpoint"
    /\ request = [synchronous |-> TRUE]

SpecHeaders == InitHeaders /\ [][NextHeaders]_vars

\* ------------------------------------------------------------- properties

\* The paragraphs.results list of a container, read off the payload.
ResultsOf(container) ==
    IF "paragraphs" \in DOMAIN container
    THEN (IF "results" \in DOMAIN container.paragraphs
          THEN container.paragraphs.results ELSE << >>)
    ELSE << >>

\* The hits build_context reads: the top-level paragraphs.results.
TopHits == ResultsOf(search)

\* The hits extract_sources_info reads.
ExtractHits == ResultsOf(RetrievalResults(search))

Min(a, b) == IF a < b THEN a ELSE b

\* The text of a hit is empty after trimming: missing, None or all whitespace.
TrimsToEmpty(hit) ==
    \/ "text" \notin DOMAIN hit
    \/ hit.text = NoneStr
    \/ \A i \in DOMAIN hit.text : hit.text[i] \in {" ", "\n"}

\* The text of a hit without its leading and trailing whitespace is t.
TrimmedTextIs(hit, t) ==
    /\ ~TrimsToEmpty(hit)
    /\ \E a, b \in 0..Len(hit.text) :
         /\ Len(hit.text) = a + Len(t) + b
         /\ SubSeq(hit.text, a + 1, a + Len(t)) = t
         /\ \A i \in (1..a) \cup ((a + Len(t) + 1)..Len(hit.text)) : hit.text[i] \in {" ", "\n"}
         /\ t[1] \notin {" ", "\n"} /\ t[Len(t)] \notin {" ", "\n"}

ScoreBelow(hit, threshold) == "score" \in DOMAIN hit /\ hit.score < threshold

\* What build_context keeps: a score missing counts as 1.0.
PassesContext(hit) == ~TrimsToEmpty(hit) /\ ~ScoreBelow(hit, min_score)

\* What extract_sources_info keeps: a score missing counts as 0.0.
PassesSources(hit) ==
    /\ ~TrimsToEmpty(hit)
    /\ IF "score" \in DOMAIN hit THEN hit.score >= min_score ELSE 0 >= min_score

ContextBuilt == pc \in {"llm", "extract", "loop", "returned"} /\ entry = "ask_agent"

\* C1: in every entry of sources, is_downloadable is true if and only if the
\* entry has a 'file' key holding a non-null descriptor, whatever the outcomes
\* of the resource lookup and download-URL calls were.
C1_DownloadableIffFile ==
    \A i \in DOMAIN sources :
        sources[i].is_downloadable
            <=> ("file" \in DOMAIN sources[i] /\ ~IsNone(sources[i].file))

\* An extraction that returned a downloadable entry and, after a failed
\* lookup, an entry without a descriptor.
C1_Witness ==
    /\ pc = "returned"
    /\ \E i \in DOMAIN sources : sources[i].is_downloadable /\ "file" \in DOMAIN sources[i]
    /\ \E i \in DOMAIN sources :
         /\ ~sources[i].is_downloadable
         /\ \E c \in DOMAIN calls :
              /\ calls[c].fn = "get_nuclia_resource"
              /\ ~calls[c].ok
              /\ calls[c].hit = origins[i]

\* C2: no block of the context comes from a hit whose text is empty after
\* trimming or whose score is below score_threshold; each block ends with the
\* trimmed text of the hit it comes from, and the string is the blocks joined.
C2_NoFilteredBlock ==
    /\ \A k \in DOMAIN blocks :
         /\ blocks[k].origin \in DOMAIN TopHits
         /\ LET hit == TopHits[blocks[k].origin]
                str == blocks[k].str
            IN  /\ ~TrimsToEmpty(hit)
                /\ ~ScoreBelow(hit, min_score)
                /\ \E n \in 1..Len(str) :
                     TrimmedTextIs(hit, SubSeq(str, Len(str) - n + 1, Len(str)))
    /\ Cardinality({i \in DOMAIN context : context[i] = "\n\n---\n\n"})
         = (IF blocks = << >> THEN 0 ELSE Len(blocks) - 1)

\* A context built from a window holding a low-score hit, a blank hit and a
\* hit that is kept.
C2_Witness ==
    /\ ContextBuilt
    /\ min_score > 0
    /\ blocks # << >>
    /\ \E i, j \in 1..Min(max_chunks, Len(TopHits)) :
         /\ ScoreBelow(TopHits[i], min_score) /\ ~TrimsToEmpty(TopHits[i])
         /\ TrimsToEmpty(TopHits[j])

\* The indices of the hits among the first max_chunks of hits that pass the
\* filter of build_context, and of extract_sources_info.
WindowPassingContext(hits) ==
    {i \in 1..Min(max_chunks, Len(hits)) : PassesContext(hits[i])}

WindowPassingSources(hits) ==
    {i \in 1..Min(max_chunks, Len(hits)) : PassesSources(hits[i])}

\* The origins of a list of blocks or entries are at most max_chunks indices
\* of passing hits of the window, in payload order.
FromWindow(origin, passing) ==
    /\ Len(origin) <= max_chunks
    /\ \A k \in DOMAIN origin : origin[k] \in passing
    /\ \A k, l \in DOMAIN origin : k < l => origin[k] < origin[l]

AllOfWindow(origin, passing) ==
    \A i \in passing : \E k \in DOMAIN origin : origin[k] = i

\* C3: build_context emits at most max_chunks blocks and extract_sources_info
\* at most max_chunks entries, each from one of the first max_chunks hits of
\* paragraphs.results, in payload order, the score/empty-text filter being
\* applied inside that window: what is emitted is exactly what passes there.
C3_FirstNWindow ==
    /\ FromWindow([k \in DOMAIN blocks |-> blocks[k].origin], WindowPassingContext(TopHits))
    /\ ContextBuilt =>
         AllOfWindow([k \in DOMAIN blocks |-> blocks[k].origin], WindowPassingContext(TopHits))
    /\ Len(sources) = Len(origins)
    /\ FromWindow(origins, WindowPassingSources(ExtractHits))
    /\ \A k \in DOMAIN sources :
         /\ TrimmedTextIs(ExtractHits[origins[k]], sources[k].text)
         /\ sources[k].resource_id = Get(ExtractHits[origins[k]], "rid", "")
    /\ pc = "returned" => AllOfWindow(origins, WindowPassingSources(ExtractHits))

\* A returned ask_agent call whose payload holds more hits than max_chunks,
\* with a passing hit beyond the window and a dropped hit inside it.
C3_Witness ==
    /\ pc = "returned"
    /\ entry = "ask_agent"
    /\ Len(TopHits) > max_chunks
    /\ PassesSources(TopHits[Len(TopHits)]) /\ PassesContext(TopHits[Len(TopHits)])
    /\ \E i \in 1..max_chunks : ~PassesContext(TopHits[i])
    /\ sources # << >>
    /\ blocks # << >>

\* The number of hits among the first n of hits that score below min_score.
FailingAmongFirst(hits, n) ==
    Cardinality({i \in 1..Min(n, Len(hits)) : ScoreBelow(hits[i], min_score)})

\* C4 as stated: with 8 hits of which 2 score below min_score=0.2 and
\* max_chunks=5, exactly 5 of the 6 passing hits are emitted by build_context
\* and by extract_sources_info, wherever the 2 failing hits sit.
C4_ExactlyMaxChunks ==
    /\ ContextBuilt => Len(blocks) = 5
    /\ pc = "returned" => Len(sources) = 5

\* C4 as amended: with 8 hits of which 2 score below min_score=0.2 and
\* max_chunks=5, build_context and extract_sources_info emit the passing hits
\* among the first 5 hits, in order: 5 minus the number of failing hits that
\* sit among the first 5, so exactly 5 only when both failing hits sit in
\* positions 6 to 8; no passing hit beyond position 5 makes up for a dropped one.
C4_WindowThenFilter ==
    /\ ContextBuilt =>
         /\ Len(blocks) = 5 - FailingAmongFirst(TopHits, 5)
         /\ \A k \in DOMAIN blocks : blocks[k].origin <= 5
         /\ \A i \in 1..5 :
              ~ScoreBelow(TopHits[i], min_score) => \E k \in DOMAIN blocks : blocks[k].origin = i
    /\ pc = "returned" =>
         /\ Len(sources) = 5 - FailingAmongFirst(TopHits, 5)
         /\ \A k \in DOMAIN origins : origins[k] <= 5
         /\ \A i \in 1..5 :
              ~ScoreBelow(TopHits[i], min_score) => \E k \in DOMAIN origins : origins[k] = i
         /\ \A k, l \in DOMAIN origins : k < l => origins[k] < origins[l]

\* The example returned with both failing hits among the first 5: 3 entries
\* and 3 blocks, though 6 hits pass.
C4_Witness ==
    /\ pc = "returned"
    /\ Len(TopHits) = 8
    /\ Cardinality({i \in 1..8 : ScoreBelow(TopHits[i], min_score)}) = 2
    /\ FailingAmongFirst(TopHits, 5) = 2
    /\ Len(sources) = 3
    /\ Len(blocks) = 3

\* C5: the k-th entry of sources has id = k: the ids are 1..Len(sources),
\* without gaps, also when earlier hits were dropped by the filter.
C5_IdsAreConsecutive ==
    \A k \in DOMAIN sources : sources[k].id = k

\* The container the priority order top-level, raw_response.retrieval_results,
\* raw_response.retrieval.results selects: the first that yields hits.
HasKey(d, k) == ~IsNone(d) /\ k \in DOMAIN d

RawResponse == IF HasKey(search, "raw_response") THEN search.raw_response ELSE EmptyDict

NestedResults ==
    IF HasKey(RawResponse, "retrieval_results") THEN RawResponse.retrieval_results
    ELSE EmptyDict

NestedRetrieval ==
    IF HasKey(RawResponse, "retrieval") /\ HasKey(RawResponse.retrieval, "results")
    THEN RawResponse.retrieval.results
    ELSE EmptyDict

TopLevelFirst ==
    IF ResultsOf(search) # << >> THEN search
    ELSE IF ResultsOf(NestedResults) # << >> THEN NestedResults
    ELSE IF ResultsOf(NestedRetrieval) # << >> THEN NestedRetrieval
    ELSE search

\* The container the priority order raw_response.retrieval_results,
\* raw_response.retrieval.results, top-level selects: the first nested
\* container that is a non-empty dict, else the payload itself.
NestedFirst ==
    IF DOMAIN NestedResults # {} THEN NestedResults
    ELSE IF DOMAIN NestedRetrieval # {} THEN NestedRetrieval
    ELSE search

\* The entries of sources are those of the passing hits among the first
\* max_chunks hits of the container, in order.
SourcesReadFrom(container) ==
    LET hits == ResultsOf(container)
        passing == {i \in 1..Min(max_chunks, Len(hits)) : PassesSources(hits[i])}
    IN  /\ Len(sources) = Cardinality(passing)
        /\ \A k \in DOMAIN sources :
             /\ origins[k] \in passing
             /\ TrimmedTextIs(hits[origins[k]], sources[k].text)
             /\ sources[k].resource_id = Get(hits[origins[k]], "rid", "")
             /\ sources[k].title
                  = Get(Get(Get(container, "resources", EmptyDict),
                            sources[k].resource_id, EmptyDict),
                        "title", <<"Documento sin titulo">>)

\* C6 as stated: extract_sources_info probes top-level, then
\* raw_response.retrieval_results, then raw_response.retrieval.results, and
\* reads paragraphs and resources from the first that yields a non-empty
\* result: a payload with top-level hits and a non-empty raw_response uses the
\* top-level hits.
C6_TopLevelFirst ==
    pc = "returned" => SourcesReadFrom(TopLevelFirst)

\* C6 as amended: extract_sources_info probes raw_response.retrieval_results,
\* then raw_response.retrieval.results, then the top level, and reads
\* paragraphs and resources from the first of the two nested containers that
\* is a non-empty dict, else from the top level: a payload with top-level hits
\* and a non-empty raw_response.retrieval_results uses the nested hits.
C6_NestedFirst ==
    pc = "returned" => SourcesReadFrom(NestedFirst)

\* A returned extraction of a payload with top-level hits and a
\* raw_response.retrieval_results holding other hits: the entries are the
\* nested ones.
C6_Witness ==
    /\ pc = "returned"
    /\ entry = "extract_sources_info"
    /\ ResultsOf(search) # << >>
    /\ ResultsOf(NestedResults) # << >>
    /\ sources # << >>
    /\ \A k \in DOMAIN sources :
         TrimmedTextIs(ResultsOf(NestedResults)[origins[k]], sources[k].text)
    /\ \E k \in DOMAIN sources : sources[k].text = <<"rr">>

\* No hit among the first max_chunks of hits survives either filter.
NothingSurvives(hits) ==
    \A i \in 1..Min(max_chunks, Len(hits)) :
        TrimsToEmpty(hits[i]) \/ ScoreBelow(hits[i], min_score)

LLMCalls == {c \in DOMAIN calls : calls[c].fn = "messages.create"}

\* C7: for a payload in which no hit survives filtering (also one without a
\* 'paragraphs' key or with paragraphs = null), build_context returns the
\* empty string, extract_sources_info returns the empty list, and ask_agent
\* calls the LLM exactly once, with that empty context, and returns: nothing
\* raises but a failing search or LLM call itself.
C7_EmptyContextStillAsks ==
    /\ (entry = "ask_agent" /\ NothingSurvives(TopHits)) =>
         /\ ContextBuilt => (context = << >> /\ blocks = << >>)
         /\ pc \in {"extract", "loop", "returned"} =>
              /\ Cardinality(LLMCalls) = 1
              /\ \A c \in LLMCalls : calls[c].ok /\ calls[c].arg = << >>
         /\ pc = "returned" => (sources = << >> /\ error = << >>)
         /\ pc = "raised" =>
              /\ ~calls[Len(calls)].ok
              /\ calls[Len(calls)].fn \in {"nuclia_search", "messages.create"}
              /\ Cardinality(LLMCalls) <= 1
    /\ (pc = "returned" /\ NothingSurvives(ExtractHits)) => sources = << >>

\* ask_agent returned on a payload holding hits, none of which survives: one
\* LLM call, with the empty context.
C7_Witness ==
    /\ pc = "returned"
    /\ entry = "ask_agent"
    /\ TopHits # << >>
    /\ NothingSurvives(TopHits)
    /\ context = << >>
    /\ sources = << >>
    /\ \E c \in DOMAIN calls :
         calls[c].fn = "messages.create" /\ calls[c].ok /\ calls[c].arg = << >>

ResourceCalls(fn, ok) ==
    {c \in DOMAIN calls : calls[c].fn = fn /\ calls[c].ok = ok}

EntriesOf(hit_index) == {k \in DOMAIN sources : origins[k] = hit_index}

\* C8 as stated: when the resource lookup or the download-URL call of a file
\* hit fails, the entry of the hit is emitted with is_downloadable = false and
\* no 'file' descriptor, and nothing is raised.
C8_FailureMeansNotDownloadable ==
    /\ \A c \in ResourceCalls("get_nuclia_resource", FALSE)
              \cup ResourceCalls("get_temporal_download_url", FALSE) :
         /\ EntriesOf(calls[c].hit) # {}
         /\ \A k \in EntriesOf(calls[c].hit) :
              ~sources[k].is_downloadable /\ "file" \notin DOMAIN sources[k]
    /\ pc = "raised" => \A c \in DOMAIN calls : calls[c].ok \/ c = Len(calls)

\* C8 as amended: when the resource lookup of a file hit fails, the entry of
\* the hit is emitted with is_downloadable = false and no 'file' descriptor;
\* when the download-URL call fails, the entry is emitted downloadable, its
\* file.download_url being the standard (authenticated) download URL of the
\* resource and file; either way the remaining hits are processed and the
\* failure is not raised out of extract_sources_info.
C8_DegradeOnFailure ==
    /\ \A c \in ResourceCalls("get_nuclia_resource", FALSE) :
         /\ EntriesOf(calls[c].hit) # {}
         /\ \A k \in EntriesOf(calls[c].hit) :
              ~sources[k].is_downloadable /\ "file" \notin DOMAIN sources[k]
    /\ \A c \in ResourceCalls("get_temporal_download_url", FALSE) :
         /\ EntriesOf(calls[c].hit) # {}
         /\ \A k \in EntriesOf(calls[c].hit) :
              /\ sources[k].is_downloadable
              /\ "file" \in DOMAIN sources[k]
              /\ sources[k].file.download_url
                   = NUCLIA_API_BASE \o <<"/kb/">> \o KB
                       \o <<"/resource/", sources[k].resource_id,
                            "/file/", sources[k].file.file_id, "/download">>
              /\ sources[k].url = sources[k].file.download_url
    /\ (ResourceCalls("get_nuclia_resource", FALSE)
          \cup ResourceCalls("get_temporal_download_url", FALSE)) # {} =>
         /\ pc \in {"loop", "returned", "responded"}
         /\ error = << >>
         /\ pc = "returned" =>
              \A i \in WindowPassingSources(ExtractHits) : EntriesOf(i) # {}

\* A returned extraction in which a lookup failed for one hit, the
\* download-URL call failed for another and a later hit was still processed.
C8_Witness ==
    /\ pc = "returned"
    /\ \E c \in ResourceCalls("get_nuclia_resource", FALSE),
          d \in ResourceCalls("get_temporal_download_url", FALSE) :
         /\ calls[c].hit # calls[d].hit
         /\ \E k \in DOMAIN sources :
              origins[k] > calls[c].hit /\ origins[k] > calls[d].hit

\* The icon the payload's resource map gives the resource of a hit.
PayloadIcon(hit) ==
    LET resources == Get(RetrievalResults(search), "resources", EmptyDict)
        rid == Get(hit, "rid", "")
    IN  IF HasKey(resources, rid) /\ HasKey(resources[rid], "icon")
        THEN resources[rid].icon ELSE << >>

\* C9: a hit whose resource icon is exactly "application/stf-link" is a link:
\* no get_nuclia_resource and no get_temporal_download_url call is made for
\* it, and its entry is not downloadable.
C9_LinkNeverLooksUp ==
    \A h \in DOMAIN ExtractHits :
        PayloadIcon(ExtractHits[h]) = <<"application/", "stf-link">> =>
            /\ \A c \in DOMAIN calls :
                 calls[c].fn \in {"get_nuclia_resource", "get_temporal_download_url"}
                     => calls[c].hit # h
            /\ \A k \in EntriesOf(h) :
                 /\ ~sources[k].is_downloadable
                 /\ "file" \notin DOMAIN sources[k]
                 /\ sources[k].resource_type = <<"application/", "stf-link">>

\* A returned extraction holding the entry of a link hit, with a resource
\* lookup made for another hit.
C9_Witness ==
    /\ pc = "returned"
    /\ \E k \in DOMAIN sources :
         /\ PayloadIcon(ExtractHits[origins[k]]) = <<"application/", "stf-link">>
         /\ sources[k].url = <<"https://", "uvg.edu.gt">>
    /\ \E c \in DOMAIN calls : calls[c].fn = "get_nuclia_resource"

\* The entries of hits whose icon is "application/pdf" and whose resource was
\* looked up with success (by a call made for the hit or for an earlier one,
\* whose answer the cache keeps).
PdfLookedUp ==
    {k \in DOMAIN sources :
        /\ PayloadIcon(ExtractHits[origins[k]]) = <<"application/", "pdf">>
        /\ \E c \in ResourceCalls("get_nuclia_resource", TRUE) :
             calls[c].arg = sources[k].resource_id /\ calls[c].hit <= origins[k]}

\* C10 as stated: for a hit whose icon is "application/pdf" and whose resource
\* lookup succeeds, the entry has resource_type equal to the icon, has a file
\* descriptor, and file.is_pdf is true.
C10_PdfIconMeansPdfFile ==
    \A k \in PdfLookedUp :
        /\ sources[k].resource_type = <<"application/", "pdf">>
        /\ "file" \in DOMAIN sources[k]
        /\ sources[k].file.is_pdf

\* The content types of the file fields a looked-up resource lists, in order.
ListedContentTypes(details) ==
    LET files == IF HasKey(details, "data") /\ HasKey(details.data, "files")
                 THEN details.data.files ELSE << >>
    IN  [j \in DOMAIN files |-> files[j][2].value.file.content_type]

\* C10 as amended: for a hit whose icon is "application/pdf" and whose resource
\* lookup succeeds, the entry has resource_type equal to the icon; it has a
\* file descriptor if and only if the looked-up resource lists a file field
\* with a non-empty content type, the descriptor is that of the first such
\* field, and file.is_pdf is true if and only if that content type contains
\* "pdf" in any letter case.
C10_PdfFlagFromContentType ==
    \A k \in PdfLookedUp :
        LET types == ListedContentTypes(resources_cache[sources[k].resource_id])
            typed == {j \in DOMAIN types : types[j] # << >>}
        IN  /\ sources[k].resource_type = <<"application/", "pdf">>
            /\ "file" \in DOMAIN sources[k] <=> typed # {}
            /\ typed # {} =>
                 LET first == CHOOSE j \in typed : \A i \in typed : j <= i
                 IN  /\ sources[k].file.content_type = types[first]
                     /\ sources[k].file.is_pdf
                          <=> \E t \in DOMAIN types[first] : types[first][t] \in {"pdf", "PDF"}

\* A returned extraction with two PDF-icon hits looked up with success: one
\* entry is a PDF file (content type in upper case), the other has no
\* descriptor.
C10_Witness ==
    /\ pc = "returned"
    /\ \E k \in PdfLookedUp :
         /\ "file" \in DOMAIN sources[k]
         /\ sources[k].file.is_pdf
         /\ sources[k].file.content_type = <<"application/", "PDF">>
    /\ \E k \in PdfLookedUp : "file" \notin DOMAIN sources[k]

CallsOf(fn) == {c \in DOMAIN calls : calls[c].fn = fn}

\* The first token of the detail of a route's error response.
DetailHead(r) ==
    IF HasKey(r, "detail") /\ r.detail # << >> THEN r.detail[1] ELSE ""

\* The response reports an upstream search failure; an LLM failure.
SaysSearchFailed(r) == DetailHead(r) = "Error consultando Nuclia ("

SaysLLMFailed(r) == DetailHead(r) = "Error llamando a Claude: "

\* C12: on the /ask route every failure of the search call (a non-2xx response
\* and also a network failure or timeout without a response) is answered as an
\* upstream search failure and not as an LLM failure, a failure of the LLM
\* call is answered as an LLM failure, and neither call is made twice.
C12_FailuresToldApart ==
    /\ Cardinality(CallsOf("nuclia_search")) <= 1
    /\ Cardinality(CallsOf("messages.create")) <= 1
    /\ (pc = "responded" /\ error # << >>) =>
         LET failed == calls[Len(calls)]
         IN  /\ (failed.fn = "nuclia_search" /\ ~failed.ok) =>
                  /\ response.status_code = 502
                  /\ SaysSearchFailed(response)
                  /\ ~SaysLLMFailed(response)
             /\ (failed.fn = "messages.create" /\ ~failed.ok) =>
                  /\ response.status_code = 502
                  /\ SaysLLMFailed(response)
                  /\ ~SaysSearchFailed(response)

\* The retrieval.results list of the provider's answer, when it has one.
AnswerHasResults ==
    /\ HasKey(raw_response, "retrieval")
    /\ HasKey(raw_response.retrieval, "results")

AnswerResults == raw_response.retrieval.results

\* C11: for a provider response with a retrieval.results list, the normalizer
\* returns exactly one source per result, in the provider's order: the source
\* at 0-based position i has id = i + 1 and its resource_id is the rid of the
\* i-th result (null when the result has none).
C11_OneSourcePerResult ==
    (entry = "nuclia_ask_endpoint" /\ pc = "responded" /\ AnswerHasResults) =>
        /\ response.status_code = 200
        /\ Len(response.sources) = Len(AnswerResults)
        /\ \A k \in DOMAIN AnswerResults :
             /\ response.sources[k].id = (k - 1) + 1
             /\ response.sources[k].resource_id
                  = (IF "rid" \in DOMAIN AnswerResults[k] THEN AnswerResults[k].rid
                     ELSE "<None>")

\* A normalized answer of three results with different resource ids, one of
\* them without a rid.
C11_Witness ==
    /\ entry = "nuclia_ask_endpoint"
    /\ pc = "responded"
    /\ AnswerHasResults
    /\ Len(AnswerResults) = 3
    /\ Len(response.sources) = 3
    /\ "rid" \notin DOMAIN AnswerResults[2]
    /\ response.sources[1].resource_id # response.sources[3].resource_id
    /\ response.sources[3].id = 3

\* The upstream error response the ask endpoint's failure carries.
UpstreamAnswered == error = <<"HTTPError">> /\ HasKey(exc, "response") /\ ~IsNone(exc.response)

RECURSIVE Concat(_)
Concat(parts) == IF parts = << >> THEN << >> ELSE Concat(SubSeq(parts, 1, Len(parts) - 1)) \o parts[Len(parts)]

Fetched == entry = "download_file" /\ pc \in {"streaming", "responded"} /\ error = << >>

\* C14: for every fetched content, the empty one included, the chunks the
\* download proxy yields, concatenated in order, are the content byte for
\* byte; every chunk but possibly the last is exactly 8192 bytes long, no
\* chunk is empty, and the Content-Length header is the length of the content.
C14_ChunksRebuildContent ==
    Fetched =>
        LET content == file_data.content
            sent == Concat(chunks)
        IN  /\ response.headers.ContentLength = ToString(Len(content))
            /\ \A k \in DOMAIN chunks :
                 /\ chunks[k] # << >>
                 /\ k < Len(chunks) => Len(chunks[k]) = 8192
                 /\ Len(chunks[k]) <= 8192
            /\ Len(sent) <= Len(content)
            /\ sent = SubSeq(content, 1, Len(sent))
            /\ pc = "responded" => sent = content

\* A finished download of two full chunks and one byte: three chunks, the
\* last one that byte.
C14_Witness ==
    /\ Fetched
    /\ pc = "responded"
    /\ Len(file_data.content) = 2 * 8192 + 1
    /\ Len(chunks) = 3
    /\ chunks[3] = <<file_data.content[2 * 8192 + 1]>>

\* C15: a failure while fetching the file is answered with status 500 and a
\* body that does not depend on the internal failure: whatever exception the
\* fetch of this request could have raised, the response is the one given.
C15_GenericFailure ==
    (entry = "download_file" /\ pc = "responded" /\ error # << >>) =>
        /\ response.status_code = 500
        /\ \A e \in DownloadFailures(request.resource_id, request.file_id) :
             DownloadFailure(e) = response
        /\ ~Contains(exc.message, response.detail)

\* C16: every entry of sources with is_downloadable = true has a file
\* descriptor whose download_url is not empty, whatever the download-URL
\* call returned and however it failed.
C16_DownloadableHasUrl ==
    \A k \in DOMAIN sources :
        sources[k].is_downloadable =>
            /\ "file" \in DOMAIN sources[k]
            /\ sources[k].file.download_url # << >>

\* C17: for the same top-level payload, max_chunks and score_threshold, the
\* hits that give build_context's blocks are exactly the hits that give
\* extract_sources_info's entries, in the same order, hits without a 'score'
\* included.
C17_SameFilter ==
    (entry = "ask_agent" /\ pc = "returned") =>
        [k \in DOMAIN blocks |-> blocks[k].origin] = origins

\* C18: within one extract_sources_info pass get_nuclia_resource is called at
\* most once for each resource id, however many surviving hits share it and
\* whether the call succeeds or fails.
C18_OneLookupPerResource ==
    \A c, d \in CallsOf("get_nuclia_resource") :
        calls[c].arg = calls[d].arg => c = d

\* The url is an http(s) URL: it starts with the scheme.
IsHttpUrl(url) == url # << >> /\ url[1] \in {"http://", "https://"}

\* The domain of an http(s) URL is one of the provider's own: the host, right
\* after the scheme, is nuclia.cloud or rag.progress.cloud.
OnProviderDomain(url) ==
    /\ IsHttpUrl(url)
    /\ \/ Len(url) >= 3 /\ url[2] = "nuclia" /\ url[3] = ".cloud/api/v1"
       \/ Len(url) >= 2 /\ url[2] = "rag.progress.cloud"

\* C19: url_type classifies the resolved url of each entry: 'none' iff the
\* url is empty, 'nuclia' iff it is an http(s) URL on one of the provider's
\* own domains, 'external' iff it is any other http(s) URL, 'resource' iff it
\* is a non-empty identifier that is not a URL; has_url is false exactly when
\* url_type is 'none'.
C19_UrlTypeClassifiesUrl ==
    \A k \in DOMAIN sources :
        LET url == sources[k].url
            url_type == sources[k].url_type
        IN  /\ url_type \in {"none", "nuclia", "external", "resource"}
            /\ url_type = "none" <=> url = << >>
            /\ url_type = "nuclia" <=> OnProviderDomain(url)
            /\ url_type = "external" <=> (IsHttpUrl(url) /\ ~OnProviderDomain(url))
            /\ url_type = "resource" <=> (url # << >> /\ ~IsHttpUrl(url))
            /\ ~sources[k].has_url <=> url_type = "none"

ResourceCallNames == {"get_nuclia_resource", "get_temporal_download_url"}

\* C20: within one ask_agent call, the search call comes first and is made
\* once, the LLM call comes second and is made once, and every resource
\* lookup or download-URL call comes after the LLM call has returned; after a
\* failed search no LLM call is made, after a failed LLM call no resource
\* lookup or download-URL call, and a returned call has made both the search
\* and the LLM call.
C20_CallOrder ==
    entry = "ask_agent" =>
        /\ \A c \in DOMAIN calls :
             /\ calls[c].fn = "nuclia_search" <=> c = 1
             /\ calls[c].fn = "messages.create" <=> c = 2
             /\ calls[c].fn \in ResourceCallNames <=> c > 2
             /\ c > 1 => calls[1].ok
             /\ c > 2 => calls[2].ok
        /\ pc \in {"extract", "loop", "returned"} => Len(calls) >= 2
        /\ (pc = "raised" /\ error # <<"AttributeError">>) =>
             /\ Len(calls) \in {1, 2}
             /\ ~calls[Len(calls)].ok

\* A returned ask_agent call: the search, the LLM call, then a resource lookup
\* and a download-URL call.
C20_Witness ==
    /\ entry = "ask_agent"
    /\ pc = "returned"
    /\ Len(calls) >= 4
    /\ calls[1].fn = "nuclia_search"
    /\ calls[2].fn = "messages.create"
    /\ calls[3].fn = "get_nuclia_resource"
    /\ calls[4].fn = "get_temporal_download_url"

\* C21: nuclia_ask never modifies the process-wide HEADERS: after any
\* interleaving of synchronous and non-synchronous nuclia_ask calls and of
\* searches, HEADERS is what it was at startup; a nuclia_ask request carries
\* the x-synchronous header if and only if its own synchronous flag is true,
\* a nuclia_search request never carries it, and every request carries the
\* startup headers.
C21_HeadersUntouched ==
    /\ HEADERS = [k \in {"X-NUCLIA-SERVICEACCOUNT"} |-> <<"Bearer ", "token">>]
    /\ \A i \in DOMAIN sent_requests :
         LET r == sent_requests[i]
         IN  /\ r.fn = "nuclia_ask" =>
                  ("x-synchronous" \in DOMAIN r.headers <=> r.synchronous)
             /\ r.fn = "nuclia_search" => "x-synchronous" \notin DOMAIN r.headers
             /\ "x-synchronous" \in DOMAIN r.headers => r.headers["x-synchronous"] = <<"true">>
             /\ "X-NUCLIA-SERVICEACCOUNT" \in DOMAIN r.headers
             /\ r.headers["X-NUCLIA-SERVICEACCOUNT"] = <<"Bearer ", "token">>

\* A synchronous nuclia_ask request was sent with the header, a search was
\* sent after it without, and a worker is about to send a non-synchronous
\* nuclia_ask request without it.
C21_Witness ==
    /\ Len(sent_requests) = 2
    /\ sent_requests[1].fn = "nuclia_ask"
    /\ sent_requests[1].synchronous
    /\ "x-synchronous" \in DOMAIN sent_requests[1].headers
    /\ sent_requests[2].fn = "nuclia_search"
    /\ \E w \in Workers :
         /\ workers[w].pc = "post"
         /\ ~workers[w].synchronous
         /\ "x-synchronous" \notin DOMAIN workers[w].headers

====
